---- MODULE Spec2Model ----
(***************************************************************************)
(* airgap.py: deterministic derivation of Bitcoin key material from a seed *)
(* file and an index, and the three batch commands (wif, pubkey, addr)     *)
(* that write and read two-column tab-separated files.                     *)
(*                                                                         *)
(* Text and byte strings are sequences of character codes (0..255).  The   *)
(* helpers of airgap.py are modelled in their Python 3 branches.           *)
(*                                                                         *)
(* The cryptographic primitives live in the libraries airgap.py calls      *)
(* (hashlib, cryptography, pycoin).  They are scaled down so that TLC can  *)
(* compute them: the curve is y^2 = x^3 + 7 over the field of CurveP       *)
(* elements instead of secp256k1, the scalar digest is HashModulus wide    *)
(* instead of 2^256, and the digests used for checksums and addresses are  *)
(* simple byte mixes.  All encodings keep their real widths: 32-byte       *)
(* big-endian integers, 65-byte uncompressed points, 4-byte checksums,     *)
(* base-58 text.                                                           *)
(***************************************************************************)
EXTENDS Integers, Sequences, FiniteSets, TLC

(***************************************************************************)
(* Results of calls that may raise.                                        *)
(***************************************************************************)
Ok(v) == [ok |-> TRUE, val |-> v]

Err(e) == [ok |-> FALSE, err |-> e]

(***************************************************************************)
(* Character codes.                                                        *)
(***************************************************************************)
TAB == 9

NL == 10

SP == 32

MINUS == 45

\* The characters str.split() with no argument treats as separators.
IsSpace(c) == c \in {9, 10, 11, 12, 13, 28, 29, 30, 31, 32, 133, 160}

\* "0123456789abcdef" as codes.
HexDigits == <<48, 49, 50, 51, 52, 53, 54, 55, 56, 57, 97, 98, 99, 100, 101, 102>>

IsDecDigit(c) == c \in 48..57

HexVal(c) ==
  IF c \in 48..57 THEN c - 48
  ELSE IF c \in 97..102 THEN c - 87
  ELSE IF c \in 65..70 THEN c - 55
  ELSE -1

(***************************************************************************)
(* Integer <-> bytes <-> hex helpers (airgap.py "Helpers").                *)
(***************************************************************************)
\* int.from_bytes(data, byteorder='big').  The leading zero bytes are
\* dropped first; what is left must fit TLC's integers.
LeadingZeros(d) ==
  IF \A i \in 1..Len(d) : d[i] = 0 THEN Len(d)
  ELSE (CHOOSE i \in 1..Len(d) : d[i] # 0 /\ \A j \in 1..(i - 1) : d[j] = 0) - 1

StripZeros(d) == SubSeq(d, LeadingZeros(d) + 1, Len(d))

RECURSIVE Horner(_, _)
Horner(d, n) == IF n = 0 THEN 0 ELSE 256 * Horner(d, n - 1) + d[n]

int_from_bytes(data) == LET d == StripZeros(data) IN Horner(d, Len(d))

\* integer.to_bytes(length, byteorder='big'), for an integer below 2^31.
int_to_bytes(integer, length) ==
  [i \in 1..length |->
     IF length - i >= 4 THEN 0 ELSE (integer \div (256 ^ (length - i))) % 256]

HexChar(nibble) == HexDigits[nibble + 1]

HexCharUpper(nibble) == IF nibble >= 10 THEN HexDigits[nibble + 1] - 32 ELSE HexDigits[nibble + 1]

\* Hex with upper-case digits, which bytes.hex() does not produce.
bytes_to_hex_upper(b) ==
  [i \in 1..(2 * Len(b)) |->
     IF i % 2 = 1 THEN HexCharUpper(b[(i + 1) \div 2] \div 16)
     ELSE HexCharUpper(b[i \div 2] % 16)]

\* Hex without the leading zero digit of a byte below 16, which bytes.hex()
\* does not produce.
bytes_to_hex_unpadded(b) ==
  LET digits(v) == IF v < 16 THEN <<HexChar(v)>> ELSE <<HexChar(v \div 16), HexChar(v % 16)>>
      RECURSIVE cat(_)
      cat(k) == IF k > Len(b) THEN <<>> ELSE digits(b[k]) \o cat(k + 1)
  IN  cat(1)

\* bytes.hex(): two lower-case hex digits per byte.
bytes_to_hex(b) ==
  [i \in 1..(2 * Len(b)) |->
     IF i % 2 = 1 THEN HexChar(b[(i + 1) \div 2] \div 16)
     ELSE HexChar(b[i \div 2] % 16)]

\* bytes.fromhex: two hex digits per byte, either case; ASCII whitespace is
\* skipped between bytes; anything else raises ValueError.
bytes_from_hex(h) ==
  LET white == {9, 10, 11, 12, 13, 32}
      d     == SelectSeq(h, LAMBDA c : c \notin white)
      \* the number of digits before position i
      before(i) == Cardinality({j \in 1..(i - 1) : h[j] \notin white})
  IN  IF /\ Len(d) % 2 = 0
         /\ \A k \in 1..Len(d) : HexVal(d[k]) >= 0
         /\ \A i \in 1..Len(h) : h[i] \in white => before(i) % 2 = 0
      THEN Ok([k \in 1..(Len(d) \div 2) |->
                 16 * HexVal(d[2 * k - 1]) + HexVal(d[2 * k])])
      ELSE Err("ValueError")

(***************************************************************************)
(* Python text primitives used by seed_to_sk and the csv module.           *)
(***************************************************************************)
\* str.split(): the maximal runs of non-whitespace characters, in order.
RECURSIVE SplitFrom(_, _, _)
SplitFrom(s, i, word) ==
  IF i > Len(s) THEN (IF word = <<>> THEN <<>> ELSE <<word>>)
  ELSE IF IsSpace(s[i])
       THEN (IF word = <<>> THEN <<>> ELSE <<word>>) \o SplitFrom(s, i + 1, <<>>)
       ELSE SplitFrom(s, i + 1, Append(word, s[i]))

split(s) == SplitFrom(s, 1, <<>>)

\* sep.join(words)
RECURSIVE join(_, _)
join(sep, words) ==
  IF words = <<>> THEN <<>>
  ELSE IF Len(words) = 1 THEN words[1]
  ELSE words[1] \o sep \o join(sep, Tail(words))

\* str(int): decimal digits, most significant first, "-" before a negative.
RECURSIVE Digits(_)
Digits(n) ==
  IF n < 10 THEN <<48 + n>> ELSE Append(Digits(n \div 10), 48 + (n % 10))

str(n) == IF n < 0 THEN <<MINUS>> \o Digits(0 - n) ELSE Digits(n)

\* word.encode('ascii'): raises UnicodeEncodeError on a code above 127.
IsAscii(s) == \A i \in 1..Len(s) : s[i] < 128

\* s.split(sep): the fields between occurrences of the one-character sep.
SplitOn(s, sep) ==
  LET at == SelectSeq([i \in 1..Len(s) |-> i], LAMBDA i : s[i] = sep)
  IN  [k \in 1..(Len(at) + 1) |->
         SubSeq(s, IF k = 1 THEN 1 ELSE at[k - 1] + 1,
                   IF k = Len(at) + 1 THEN Len(s) ELSE at[k] - 1)]

(***************************************************************************)
(* tsv_writer / tsv_reader: csv with delimiter TAB, lineterminator NL.     *)
(* No field of the model holds a quote, a TAB, a CR or a NL, so the        *)
(* writer never quotes and the reader never unquotes.                      *)
(***************************************************************************)
tsv_writerow(fields) == join(<<TAB>>, fields) \o <<NL>>

\* The rows csv.reader yields for a text: one per line, split on TAB; a
\* blank line yields the empty row.
ReaderLines(text) ==
  LET parts == SplitOn(text, NL)
  IN  IF parts[Len(parts)] = <<>> THEN SubSeq(parts, 1, Len(parts) - 1) ELSE parts

tsv_reader(text) ==
  LET lines == ReaderLines(text)
  IN  [k \in 1..Len(lines) |->
         IF lines[k] = <<>> THEN <<>> ELSE SplitOn(lines[k], TAB)]

(***************************************************************************)
(* Base 58 (pycoin.encoding), on byte strings of any length: the number is *)
(* kept as its base-256 digits and divided by 58 digit by digit.           *)
(***************************************************************************)
\* "123456789ABCDEFGHJKLMNPQRSTUVWXYZabcdefghijkmnopqrstuvwxyz" as codes.
BASE58_ALPHABET ==
  <<49, 50, 51, 52, 53, 54, 55, 56, 57,
    65, 66, 67, 68, 69, 70, 71, 72, 74, 75, 76, 77, 78, 80, 81, 82, 83, 84,
    85, 86, 87, 88, 89, 90,
    97, 98, 99, 100, 101, 102, 103, 104, 105, 106, 107, 109, 110, 111, 112,
    113, 114, 115, 116, 117, 118, 119, 120, 121, 122>>

\* Loops are run a stretch of 8 steps at a time, which keeps the evaluation
\* shallow.
\* The long division of the base-256 number d by 58, a digit per step: q is
\* the quotient so far, r the remainder carried, i the next digit.
DivStep(d, st) ==
  LET cur == st.r * 256 + d[st.i]
  IN  [q |-> Append(st.q, cur \div 58), r |-> cur % 58, i |-> st.i + 1]

RECURSIVE DivRun(_, _, _)
DivRun(d, st, n) ==
  IF n = 0 \/ st.i > Len(d) THEN st ELSE DivRun(d, DivStep(d, st), n - 1)

RECURSIVE DivAll(_, _)
DivAll(d, st) == IF st.i > Len(d) THEN st ELSE DivAll(d, DivRun(d, st, 8))

DivMod58(d) == DivAll(d, [q |-> <<>>, r |-> 0, i |-> 1])

\* from_long: the base-58 digits of the number d, least significant first
\* found: d is divided by 58 until nothing is left.
DigitStep(st) ==
  LET qr == DivMod58(st.d)
  IN  [d |-> StripZeros(qr.q), t |-> <<BASE58_ALPHABET[qr.r + 1]>> \o st.t]

RECURSIVE DigitRun(_, _)
DigitRun(st, n) == IF n = 0 \/ st.d = <<>> THEN st ELSE DigitRun(DigitStep(st), n - 1)

RECURSIVE DigitAll(_)
DigitAll(st) == IF st.d = <<>> THEN st ELSE DigitAll(DigitRun(st, 8))

Base58Digits(d) == DigitAll([d |-> d, t |-> <<>>]).t

Ones(n) == [k \in 1..n |-> 49]

b2a_base58(s) == Ones(LeadingZeros(s)) \o Base58Digits(StripZeros(s))

(***************************************************************************)
(* Library primitives, scaled down.                                        *)
(***************************************************************************)
\* The number of values the scalar digest takes (2^256 in hashlib.sha256).
HashModulus == 64

\* The curve y^2 = x^3 + 7 over the integers modulo CurveP, its generator
\* and the (prime) order of its group (secp256k1's p, G and n).
CurveP == 61

CurveN == 61

Gx == 2

Gy == 25

\* A running mix of the bytes, h -> (31 * h + byte + 1) mod m from h0, computed
\* by halving: <<a, c>> is the map h -> (a * h + c) mod m of a run of bytes.
RECURSIVE MixMap(_, _, _, _)
MixMap(data, lo, hi, m) ==
  IF lo > hi THEN <<1, 0>>
  ELSE IF lo = hi THEN <<31 % m, (data[lo] + 1) % m>>
  ELSE LET mid   == (lo + hi) \div 2
           left  == MixMap(data, lo, mid, m)
           right == MixMap(data, mid + 1, hi, m)
       IN  <<(right[1] * left[1]) % m, (right[1] * left[2] + right[2]) % m>>

Mix(data, h0, m) ==
  LET f == MixMap(data, 1, Len(data), m) IN (f[1] * h0 + f[2]) % m

\* hashlib.sha256(phrase).digest(): 32 bytes, here holding a number below
\* HashModulus.
sha256_digest(data) == int_to_bytes(Mix(data, 7, HashModulus), 32)

\* pycoin.encoding.double_sha256: 32 bytes mixed from the data.
double_sha256(data) ==
  LET a == Mix(data, 1, 251)
      b == Mix(data, 3, 241)
  IN  [k \in 1..32 |-> (a * k + b + 7 * k * k) % 256]

\* pycoin.encoding.hash160 (ripemd160 of sha256): 20 bytes mixed from the data.
hash160(data) ==
  LET a == Mix(data, 5, 239)
      b == Mix(data, 11, 233)
  IN  [k \in 1..20 |-> (a + b * k + 3 * k * k) % 256]

\* The point at infinity is <<>>; any other point is <<x, y>>.
Infinity == <<>>

ModInv(a) == CHOOSE b \in 1..(CurveP - 1) : (a * b) % CurveP = 1

OnCurve(pt) ==
  /\ pt[1] \in 0..(CurveP - 1)
  /\ pt[2] \in 0..(CurveP - 1)
  /\ (pt[2] * pt[2]) % CurveP = (pt[1] * pt[1] * pt[1] + 7) % CurveP

PointAdd(p1, p2) ==
  IF p1 = Infinity THEN p2
  ELSE IF p2 = Infinity THEN p1
  ELSE IF p1[1] = p2[1] /\ (p1[2] + p2[2]) % CurveP = 0 THEN Infinity
  ELSE LET lam == IF p1 = p2
                  THEN (3 * p1[1] * p1[1] * ModInv((2 * p1[2]) % CurveP)) % CurveP
                  ELSE ((p2[2] - p1[2]) * ModInv((p2[1] - p1[1]) % CurveP)) % CurveP
           x3  == (lam * lam - p1[1] - p2[1]) % CurveP
       IN  <<x3, (lam * (p1[1] - x3) - p1[2]) % CurveP>>

\* k * pt by double-and-add; k >= 0.
RECURSIVE PointMul(_, _)
PointMul(k, pt) ==
  IF k = 0 THEN Infinity
  ELSE LET half == PointMul(k \div 2, pt)
           dbl  == PointAdd(half, half)
       IN  IF k % 2 = 1 THEN PointAdd(dbl, pt) ELSE dbl

(***************************************************************************)
(* State.                                                                  *)
(***************************************************************************)
VARIABLES
  backend_checks_range, \* whether the installed EC backend refuses a scalar
                        \* at or above the group order (airgap.py does not say)
  seed,                 \* the text of the seed file (seed_in.read())
  cmd,                  \* the command running: "none", "wif", "pubkey", "addr"
  pc,                   \* "idle", "loop", "done" (returned), "error" (raised)
  start,                \* --start
  count,                \* --count
  idx,                  \* the loop variable of wif and pubkey
  infile,               \* the text of pubkey_in (addr)
  pending,              \* the rows tsv_reader has still to yield (addr)
  out,                  \* the text written to the output file so far
  err,                  \* the exception that ended the command, or "none"
  prev_cmd,             \* the last wif or pubkey command that ran before
  prev_start,           \* its --start
  prev_out,             \* the output file it left
  pair,                 \* seed_to_sk called on two seed texts (test harness)
  chain                 \* seed_to_sk .. pk_to_addr called on one scalar

vars ==
  <<backend_checks_range, seed, cmd, pc, start, count, idx, infile, pending,
    out, err, prev_cmd, prev_start, prev_out, pair, chain>>

(***************************************************************************)
(* Crypto (airgap.py "Crypto").                                            *)
(***************************************************************************)
\* The seed text taken as it stands, which is not what seed_to_sk hashes.
phrase_unsplit(seed_text, index) == seed_text \o <<SP>> \o str(index) \o <<NL>>

\* The byte string seed_to_sk hashes.
phrase(seed_text, index) ==
  join(<<SP>>, split(seed_text)) \o <<SP>> \o str(index) \o <<NL>>

seed_to_sk(seed_text, index) ==
  IF \E k \in 1..Len(split(seed_text)) : ~IsAscii(split(seed_text)[k])
  THEN Err("UnicodeEncodeError")
  ELSE Ok(int_from_bytes(sha256_digest(phrase(seed_text, index))))

\* cryptography: ec.derive_private_key(sk, SECP256K1(), backend) and the
\* public point of the key.  A scalar below 1 is refused in Python; the
\* public point is sk * G, which has no coordinates when sk is a multiple
\* of the order; whether any other scalar at or above the order is refused
\* is left to the backend.
derive_public_point(sk) ==
  IF sk <= 0 THEN Err("ValueError")
  ELSE LET pt == PointMul(sk, <<Gx, Gy>>)
       IN  IF pt = Infinity THEN Err("InternalError")
           ELSE IF sk >= CurveN /\ backend_checks_range THEN Err("ValueError")
           ELSE Ok(pt)

\* EllipticCurvePublicNumbers.encode_point(): SEC 1 uncompressed.
encode_point(pt) == <<4>> \o int_to_bytes(pt[1], 32) \o int_to_bytes(pt[2], 32)

sk_to_pk(sk) ==
  LET priv_key == derive_public_point(sk)
  IN  IF priv_key.ok THEN Ok(encode_point(priv_key.val)) ELSE priv_key

\* pycoin.encoding
b2a_hashed_base58(data) == b2a_base58(data \o SubSeq(double_sha256(data), 1, 4))

secret_exponent_to_wif(secret_exp, compressed) ==
  b2a_hashed_base58(<<128>> \o int_to_bytes(secret_exp, 32)
                      \o (IF compressed THEN <<1>> ELSE <<>>))

\* The WIF of the compressed form, which sk_to_wif does not ask for.
sk_to_wif_compressed(sk) ==
  IF sk < 1 \/ sk >= CurveN THEN Err("InvalidSecretExponentError")
  ELSE Ok(secret_exponent_to_wif(sk, TRUE))

\* pycoin: key.Key(secret_exponent=sk, netcode='BTC') refuses a scalar
\* outside 1 .. order - 1; wif(use_uncompressed=True) is the form without
\* the suffix byte.
sk_to_wif(sk) ==
  IF sk < 1 \/ sk >= CurveN THEN Err("InvalidSecretExponentError")
  ELSE Ok(secret_exponent_to_wif(sk, FALSE))

\* pycoin.key.Key.from_sec -> sec_to_public_pair: the uncompressed form
\* (65 bytes, tag 4) and the compressed form (33 bytes, tag 2 or 3, the tag
\* giving the parity of y) are both accepted.
public_pair_for_x(x, is_y_odd) ==
  LET ys == {y \in 0..(CurveP - 1) :
               OnCurve(<<x, y>>) /\ ((y % 2 = 1) <=> is_y_odd)}
  IN  IF x \in 0..(CurveP - 1) /\ ys # {} THEN Ok(<<x, CHOOSE y \in ys : TRUE>>)
      ELSE Err("InvalidPublicPairError")

sec_to_public_pair(sec) ==
  IF Len(sec) = 65 /\ sec[1] = 4
  THEN Ok(<<int_from_bytes(SubSeq(sec, 2, 33)), int_from_bytes(SubSeq(sec, 34, 65))>>)
  ELSE IF Len(sec) = 33 /\ sec[1] \in {2, 3}
  THEN public_pair_for_x(int_from_bytes(SubSeq(sec, 2, 33)), sec[1] = 3)
  ELSE Err("EncodingError")

\* Key(public_pair=...) refuses a pair that is not a point of the curve;
\* address(use_uncompressed=True) hashes the uncompressed encoding.
pk_to_addr(pk) ==
  LET pp == sec_to_public_pair(pk)
  IN  IF ~pp.ok THEN pp
      ELSE IF ~OnCurve(pp.val) THEN Err("InvalidPublicPairError")
      ELSE Ok(b2a_hashed_base58(<<0>> \o hash160(encode_point(pp.val))))

(***************************************************************************)
(* Inputs.                                                                 *)
(***************************************************************************)
\* --count ranges over 0 .. MaxCount.
MaxCount == 2

\* --start: a negative index, zero, and one whose range crosses from one
\* decimal digit to two.
Starts == {-1, 0, 9}

\* Seed files: "a b\n", "A b", "a", " hj\n" and a non-ASCII word.
Seeds ==
  { <<97, 32, 98, 10>>, <<65, 32, 98>>, <<97>>, <<32, 104, 106, 10>>, <<233>> }

(***************************************************************************)
(* The batch commands (airgap.py "Command line").  One action per call,    *)
(* per loop iteration and per return.                                      *)
(***************************************************************************)
Raise(e) == pc' = "error" /\ err' = e

Begin(c, s, n) ==
  /\ pc = "idle"
  /\ cmd' = c /\ pc' = "loop" /\ start' = s /\ count' = n /\ idx' = s
  /\ out' = <<>> /\ err' = "none"

\* wif: seed = seed_in.read(); tsv_out = tsv_writer(wif_out)
wif_begin(s, n) ==
  /\ Begin("wif", s, n)
  /\ UNCHANGED <<backend_checks_range, seed, infile, pending, prev_cmd,
                 prev_start, prev_out, pair, chain>>

\* A range of step 2, which range(start, start + count) is not.
next_index_by_two(i) == i + 2

\* The index after i in range(start, start + count).
next_index(i) == i + 1

\* The offset of the loop variable from --start, which the loop body does
\* not derive for.
index_relative_to_start(i) == i - start

\* The index the loop body derives for: the loop variable itself.
index_derived(i) == i

\* wif: one iteration of the loop.
wif_step ==
  /\ cmd = "wif" /\ pc = "loop" /\ idx < start + count
  /\ LET sk == seed_to_sk(seed, index_derived(idx))
         w  == IF sk.ok THEN sk_to_wif(sk.val) ELSE sk
     IN  IF w.ok
         THEN /\ out' = out \o tsv_writerow(<<str(idx), w.val>>)
              /\ idx' = next_index(idx)
              /\ UNCHANGED <<pc, err>>
         ELSE Raise(w.err) /\ UNCHANGED <<out, idx>>
  /\ UNCHANGED <<backend_checks_range, seed, cmd, start, count, infile,
                 pending, prev_cmd, prev_start, prev_out, pair, chain>>

\* pubkey: seed = seed_in.read(); tsv_out = tsv_writer(pubkey_out)
pubkey_begin(s, n) ==
  /\ Begin("pubkey", s, n)
  /\ UNCHANGED <<backend_checks_range, seed, infile, pending, prev_cmd,
                 prev_start, prev_out, pair, chain>>

\* pubkey: one iteration of the loop.
pubkey_step ==
  /\ cmd = "pubkey" /\ pc = "loop" /\ idx < start + count
  /\ LET sk == seed_to_sk(seed, index_derived(idx))
         pk == IF sk.ok THEN sk_to_pk(sk.val) ELSE sk
     IN  IF pk.ok
         THEN /\ out' = out \o tsv_writerow(<<str(idx), bytes_to_hex(pk.val)>>)
              /\ idx' = next_index(idx)
              /\ UNCHANGED <<pc, err>>
         ELSE Raise(pk.err) /\ UNCHANGED <<out, idx>>
  /\ UNCHANGED <<backend_checks_range, seed, cmd, start, count, infile,
                 pending, prev_cmd, prev_start, prev_out, pair, chain>>

\* wif, pubkey: range(start, start + count) is exhausted; the command returns.
range_return ==
  /\ cmd \in {"wif", "pubkey"} /\ pc = "loop" /\ idx >= start + count
  /\ pc' = "done"
  /\ UNCHANGED <<backend_checks_range, seed, cmd, start, count, idx, infile,
                 pending, out, err, prev_cmd, prev_start, prev_out, pair, chain>>

\* addr: tsv_out = tsv_writer(addr_out); the reader is opened on pubkey_in.
addr_begin(file) ==
  /\ pc = "idle"
  /\ cmd' = "addr" /\ pc' = "loop"
  /\ infile' = file /\ pending' = tsv_reader(file)
  /\ out' = <<>> /\ err' = "none"
  /\ UNCHANGED <<backend_checks_range, seed, start, count, idx, prev_cmd,
                 prev_start, prev_out, pair, chain>>

\* The position of the row in the output, which addr does not write.
index_renumbered(text) == str(Len(tsv_reader(out)))

\* The first column as addr writes it: the text it read.
index_written(text) == text

\* addr: one iteration of the loop (unpack the row, decode, derive, write).
addr_step ==
  /\ cmd = "addr" /\ pc = "loop" /\ pending # <<>>
  /\ LET row    == Head(pending)
         pubkey == IF Len(row) = 2 THEN bytes_from_hex(row[2]) ELSE Err("ValueError")
         a      == IF pubkey.ok THEN pk_to_addr(pubkey.val) ELSE pubkey
     IN  IF a.ok
         THEN /\ out' = out \o tsv_writerow(<<index_written(row[1]), a.val>>)
              /\ pending' = Tail(pending)
              /\ UNCHANGED <<pc, err>>
         ELSE Raise(a.err) /\ UNCHANGED <<out, pending>>
  /\ UNCHANGED <<backend_checks_range, seed, cmd, start, count, idx, infile,
                 prev_cmd, prev_start, prev_out, pair, chain>>

\* addr: the reader is exhausted; the command returns.
addr_return ==
  /\ cmd = "addr" /\ pc = "loop" /\ pending = <<>>
  /\ pc' = "done"
  /\ UNCHANGED <<backend_checks_range, seed, cmd, start, count, idx, infile,
                 pending, out, err, prev_cmd, prev_start, prev_out, pair, chain>>

\* The process ends (cli() returns or the exception leaves it): the output
\* file is closed with what was written, and the next command can run.
exit ==
  /\ pc \in {"done", "error"}
  /\ IF cmd \in {"wif", "pubkey"}
     THEN prev_cmd' = cmd /\ prev_start' = start /\ prev_out' = out
     ELSE UNCHANGED <<prev_cmd, prev_start, prev_out>>
  /\ cmd' = "none" /\ pc' = "idle" /\ start' = 0 /\ count' = 0 /\ idx' = 0
  /\ infile' = <<>> /\ pending' = <<>> /\ out' = <<>> /\ err' = "none"
  /\ UNCHANGED <<backend_checks_range, seed, pair, chain>>

Off == [pc |-> "off"]

Idle ==
  /\ cmd = "none" /\ pc = "idle" /\ start = 0 /\ count = 0 /\ idx = 0
  /\ infile = <<>> /\ pending = <<>> /\ out = <<>> /\ err = "none"
  /\ prev_cmd = "none" /\ prev_start = 0 /\ prev_out = <<>>

Init ==
  /\ backend_checks_range \in BOOLEAN
  /\ seed \in Seeds
  /\ Idle
  /\ pair = Off /\ chain = Off

Next ==
  \/ \E s \in Starts, n \in 0..MaxCount : wif_begin(s, n)
  \/ wif_step
  \/ \E s \in Starts, n \in 0..MaxCount : pubkey_begin(s, n)
  \/ pubkey_step
  \/ range_return
  \/ (prev_cmd = "pubkey" /\ addr_begin(prev_out))
  \/ addr_step
  \/ addr_return
  \/ exit

Spec == Init /\ [][Next]_vars

(***************************************************************************)
(* addr on hand-written input files.                                       *)
(***************************************************************************)
\* An input file holds up to MaxRows lines.
MaxRows == 2

Point(k) == PointMul(k, <<Gx, Gy>>)

Line(index_text, field) == index_text \o <<TAB>> \o field

\* str.upper() of a text of hex digits.
upper(text) ==
  [i \in 1..Len(text) |-> IF text[i] \in 97..102 THEN text[i] - 32 ELSE text[i]]

\* The compressed encoding of a point: tag 2 (y even) or 3 (y odd), then x.
Compressed(pt) == <<2 + (pt[2] % 2)>> \o int_to_bytes(pt[1], 32)

\* Lines of an input file: well-formed ones (indices out of order, repeated,
\* with leading zeros, upper-case hex) and malformed ones.
GoodLines ==
  { Line(<<53>>, bytes_to_hex(encode_point(Point(1)))),
    Line(<<51>>, bytes_to_hex(encode_point(Point(2)))),
    Line(<<48, 48, 55>>, upper(bytes_to_hex(encode_point(Point(3))))) }

CompressedLines == { Line(<<53>>, bytes_to_hex(Compressed(Point(1)))) }

BadLines ==
  { Line(<<49>>, bytes_to_hex(SubSeq(encode_point(Point(1)), 1, 64))),
    Line(<<50>>, <<122, 122>>),
    <<54>>,
    <<>>,
    Line(<<52>>, bytes_to_hex(<<5>> \o Tail(encode_point(Point(1))))),
    Line(<<56>>, bytes_to_hex(encode_point(<<2, 26>>))) }

Lines == GoodLines \cup CompressedLines \cup BadLines

RECURSIVE FilesOf(_)
FilesOf(n) ==
  IF n = 0 THEN {<<>>}
  ELSE LET shorter == FilesOf(n - 1)
       IN  shorter \cup {f \o l \o <<NL>> : f \in shorter, l \in Lines}

InputFiles == FilesOf(MaxRows)

InitAddr ==
  /\ backend_checks_range \in BOOLEAN
  /\ seed = <<>>
  /\ cmd = "none" /\ pc = "idle" /\ start = 0 /\ count = 0 /\ idx = 0
  /\ infile \in InputFiles /\ pending = <<>> /\ out = <<>> /\ err = "none"
  /\ prev_cmd = "none" /\ prev_start = 0 /\ prev_out = <<>>
  /\ pair = Off /\ chain = Off

NextAddr ==
  \/ addr_begin(infile)
  \/ addr_step
  \/ addr_return

SpecAddr == InitAddr /\ [][NextAddr]_vars

(***************************************************************************)
(* The derivation functions called one after the other on one seed and     *)
(* index, as a caller of the module does (tests/test_derivation.py).       *)
(***************************************************************************)
\* Indices 0 .. MaxIndex.
MaxIndex == 3

\* The one-letter seeds "a" .. "z", "a b" and "zz top".
ChainSeeds ==
  {<<c>> : c \in 97..122} \cup {<<97, 32, 98>>, <<122, 122, 32, 116, 111, 112>>}

chain_seed_to_sk ==
  /\ chain.pc = "start"
  /\ chain' = [chain EXCEPT !.pc = "sk", !.sk = seed_to_sk(chain.seed, chain.index)]
  /\ UNCHANGED <<backend_checks_range, seed, cmd, pc, start, count, idx, infile,
                 pending, out, err, prev_cmd, prev_start, prev_out, pair>>

chain_sk_to_wif ==
  /\ chain.pc = "sk" /\ chain.sk.ok
  /\ chain' = [chain EXCEPT !.pc = "wif", !.wif = sk_to_wif(chain.sk.val)]
  /\ UNCHANGED <<backend_checks_range, seed, cmd, pc, start, count, idx, infile,
                 pending, out, err, prev_cmd, prev_start, prev_out, pair>>

chain_sk_to_pk ==
  /\ chain.pc = "sk" /\ chain.sk.ok
  /\ chain' = [chain EXCEPT !.pc = "pk", !.pk = sk_to_pk(chain.sk.val)]
  /\ UNCHANGED <<backend_checks_range, seed, cmd, pc, start, count, idx, infile,
                 pending, out, err, prev_cmd, prev_start, prev_out, pair>>

chain_pk_to_addr ==
  /\ chain.pc = "pk" /\ chain.pk.ok
  /\ chain' = [chain EXCEPT !.pc = "addr", !.addr = pk_to_addr(chain.pk.val)]
  /\ UNCHANGED <<backend_checks_range, seed, cmd, pc, start, count, idx, infile,
                 pending, out, err, prev_cmd, prev_start, prev_out, pair>>

NotCalled == Err("not called")

InitKeys ==
  /\ backend_checks_range \in BOOLEAN
  /\ seed = <<>>
  /\ Idle
  /\ pair = Off
  /\ chain \in [pc : {"start"}, seed : ChainSeeds, index : 0..MaxIndex,
                sk : {NotCalled}, wif : {NotCalled}, pk : {NotCalled},
                addr : {NotCalled}]

NextKeys ==
  \/ chain_seed_to_sk
  \/ chain_sk_to_wif
  \/ chain_sk_to_pk
  \/ chain_pk_to_addr

SpecKeys == InitKeys /\ [][NextKeys]_vars

(***************************************************************************)
(* seed_to_sk called on two seed texts with the same index.                *)
(***************************************************************************)
\* Seed texts of up to MaxSeedLen characters over "a", "A", space and newline.
MaxSeedLen == 3

SeedAlphabet == {97, 65, SP, NL}

RECURSIVE TextsOf(_)
TextsOf(n) ==
  IF n = 0 THEN {<<>>}
  ELSE LET shorter == TextsOf(n - 1)
       IN  shorter \cup {Append(t, c) : t \in shorter, c \in SeedAlphabet}

PairSeeds == TextsOf(MaxSeedLen)

PairIndices == {-1, 10}

pair_seed_to_sk ==
  /\ pair.pc = "start"
  /\ pair' = [pair EXCEPT !.pc = "called",
                          !.phraseA = phrase(pair.seedA, pair.index),
                          !.phraseB = phrase(pair.seedB, pair.index),
                          !.skA = seed_to_sk(pair.seedA, pair.index),
                          !.skB = seed_to_sk(pair.seedB, pair.index)]
  /\ UNCHANGED <<backend_checks_range, seed, cmd, pc, start, count, idx, infile,
                 pending, out, err, prev_cmd, prev_start, prev_out, chain>>

InitPair ==
  /\ backend_checks_range = TRUE
  /\ seed = <<>>
  /\ Idle
  /\ chain = Off
  /\ pair \in [pc : {"start"}, seedA : PairSeeds, seedB : PairSeeds,
               index : PairIndices, phraseA : {<<>>}, phraseB : {<<>>},
               skA : {NotCalled}, skB : {NotCalled}]

NextPair == pair_seed_to_sk

SpecPair == InitPair /\ [][NextPair]_vars

(***************************************************************************)
(* Properties.                                                             *)
(***************************************************************************)
\* The integer a decimal text denotes ("-" first for a negative one).
RECURSIVE DecimalOf(_, _)
DecimalOf(t, n) == IF n = 0 THEN 0 ELSE 10 * DecimalOf(t, n - 1) + (t[n] - 48)

DecimalValue(t) ==
  IF t # <<>> /\ t[1] = MINUS THEN 0 - DecimalOf(Tail(t), Len(t) - 1)
  ELSE DecimalOf(t, Len(t))

IsDecimal(t) ==
  LET d == IF t # <<>> /\ t[1] = MINUS THEN Tail(t) ELSE t
  IN  d # <<>> /\ \A i \in 1..Len(d) : IsDecDigit(d[i])

\* The rows of the output file as written so far, and of the earlier one.
OutRows == tsv_reader(out)

PrevRows == tsv_reader(prev_out)

InRows == tsv_reader(infile)

\* C1: wif and pubkey write one row per index of range(start, start + count),
\* in ascending order, nothing else: the k-th row written carries the index
\* start + k - 1, the rows written are those of the indices before idx, and
\* a command that returns has written exactly count rows (none for count 0).
C1_RowsAreTheIndexRange ==
  (cmd \in {"wif", "pubkey"}) =>
    /\ Len(OutRows) = idx - start
    /\ \A k \in 1..Len(OutRows) :
         /\ Len(OutRows[k]) = 2
         /\ IsDecimal(OutRows[k][1])
         /\ DecimalValue(OutRows[k][1]) = start + k - 1
    /\ (pc = "done" => Len(OutRows) = count)

\* A pubkey run over 9, 10 has returned with its two rows.
C1_Witness ==
  /\ cmd = "pubkey" /\ pc = "done" /\ start = 9 /\ count = 2
  /\ Len(OutRows) = 2

\* The value a row of file rows carries for index text i, if any.
ValuesFor(rows, i) == {rows[k][2] : k \in {j \in 1..Len(rows) : rows[j][1] = i}}

DirectAddress(i) ==
  LET sk == seed_to_sk(seed, i)
      pk == IF sk.ok THEN sk_to_pk(sk.val) ELSE sk
  IN  IF pk.ok THEN pk_to_addr(pk.val) ELSE pk

\* C4: addr run on the file pubkey left writes, row for row, the index and
\* the address computed directly from the seed for that index; the hex text
\* of every row decodes to the very bytes sk_to_pk returned; addr never
\* fails on such a file, and returns with as many rows as the file holds.
C4_PubkeyThenAddrIsDirect ==
  (cmd = "addr" /\ infile = prev_out /\ prev_cmd = "pubkey") =>
    /\ pc # "error"
    /\ Len(OutRows) + Len(pending) = Len(PrevRows)
    /\ \A k \in 1..Len(OutRows) :
         /\ DecimalValue(OutRows[k][1]) = prev_start + k - 1
         /\ OutRows[k][1] = PrevRows[k][1]
         /\ DirectAddress(prev_start + k - 1).ok
         /\ OutRows[k][2] = DirectAddress(prev_start + k - 1).val
    /\ \A k \in 1..Len(PrevRows) :
         bytes_from_hex(PrevRows[k][2]) =
           sk_to_pk(seed_to_sk(seed, prev_start + k - 1).val)
    /\ (pc = "done" => Len(OutRows) = Len(PrevRows))

\* addr has returned after turning a two-row pubkey file into two rows.
C4_Witness ==
  /\ cmd = "addr" /\ pc = "done" /\ prev_cmd = "pubkey"
  /\ Len(PrevRows) = 2 /\ Len(OutRows) = 2

\* An input row as the pubkey command writes them: two columns, the second
\* the hex text of the 65-byte uncompressed encoding of a curve point.
WellFormedRow(row) ==
  /\ Len(row) = 2
  /\ bytes_from_hex(row[2]).ok
  /\ \E k \in 1..(CurveN - 1) : bytes_from_hex(row[2]).val = encode_point(Point(k))

\* C5: addr writes its rows in input order, each with the index text of the
\* input row at the same position, unchanged, and the address of that row's
\* public key; on a file of n well-formed rows it does not fail and returns
\* with exactly n rows.
C5_AddrKeepsIndexAndOrder ==
  (cmd = "addr") =>
    /\ Len(OutRows) <= Len(InRows)
    /\ pending = SubSeq(InRows, Len(OutRows) + 1, Len(InRows))
    /\ \A k \in 1..Len(OutRows) :
         /\ Len(OutRows[k]) = 2
         /\ OutRows[k][1] = InRows[k][1]
         /\ OutRows[k][2] = pk_to_addr(bytes_from_hex(InRows[k][2]).val).val
    /\ (\A k \in 1..Len(InRows) : WellFormedRow(InRows[k])) =>
         /\ pc # "error"
         /\ (pc = "done" => Len(OutRows) = Len(InRows))

\* addr has returned on the indices 5, 3 (not ascending) with rows 5, 3.
C5_Witness ==
  /\ cmd = "addr" /\ pc = "done"
  /\ Len(InRows) = 2 /\ WellFormedRow(InRows[1]) /\ WellFormedRow(InRows[2])
  /\ InRows[1][1] = <<53>> /\ InRows[2][1] = <<51>>
  /\ Len(OutRows) = 2 /\ OutRows[1][1] = <<53>> /\ OutRows[2][1] = <<51>>

\* C9 as claimed: addr writes an address row only for an input row whose
\* second column is valid hex of a 65-byte string; any other row (a 33-byte
\* compressed key for one) ends the command in an error with no row for it.
C9_AddrAcceptsOnlyUncompressed ==
  (cmd = "addr") =>
    \A k \in 1..Len(OutRows) :
      /\ bytes_from_hex(InRows[k][2]).ok
      /\ Len(bytes_from_hex(InRows[k][2]).val) = 65

\* C10 as claimed: a command that fails leaves no partial output; nothing
\* is in the output file after the failure.
C10_NoPartialOutputOnError ==
  (pc = "error") => out = <<>>

\* The four checksum bytes b2a_hashed_base58 appends to a payload.
Checksum(payload) == SubSeq(double_sha256(payload), 1, 4)

\* C6: the text sk_to_wif returns is the base-58 encoding of 37 bytes: the
\* version byte 0x80, the scalar as 32 big-endian bytes, and the first four
\* bytes of the double hash of those 33 bytes; no suffix byte follows the
\* scalar.
C6_WifLayout ==
  (chain.pc = "wif" /\ chain.wif.ok) =>
    LET payload == <<128>> \o int_to_bytes(chain.sk.val, 32)
        buffer  == payload \o Checksum(payload)
    IN  /\ Len(buffer) = 37
        /\ chain.wif.val = b2a_base58(buffer)

\* sk_to_wif has returned a text for a scalar (51 characters, as for 37 bytes
\* headed by 0x80).
C6_Witness ==
  /\ chain.pc = "wif" /\ chain.wif.ok /\ chain.sk.val \in 1..(CurveN - 1)
  /\ Len(chain.wif.val) = 51

\* C6 as claimed: the encoded buffer has a suffix byte between the scalar
\* and the checksum, 38 bytes in all.
C6_WifLayoutWithSuffixByte ==
  (chain.pc = "wif" /\ chain.wif.ok) =>
    \E suffix \in 0..255 :
      LET payload == <<128>> \o int_to_bytes(chain.sk.val, 32) \o <<suffix>>
          buffer  == payload \o Checksum(payload)
      IN  /\ Len(buffer) = 38
          /\ chain.wif.val = b2a_base58(buffer)

\* C8 as claimed: sk_to_pk returns no public key for a scalar outside
\* 1 .. order - 1, and neither does sk_to_wif return a text for one.
C8_OutOfRangeScalarRaises ==
  (chain.pc \in {"pk", "wif"} /\ chain.sk.val \notin 1..(CurveN - 1)) =>
    /\ (chain.pc = "pk" => ~chain.pk.ok)
    /\ (chain.pc = "wif" => ~chain.wif.ok)

IsLowerHex(text) == \A i \in 1..Len(text) : text[i] \in (48..57) \cup (97..102)

\* The bytes a text of lower-case hex digits denotes, two digits a byte.
Unhex(text) ==
  [k \in 1..(Len(text) \div 2) |->
     16 * HexVal(text[2 * k - 1]) + HexVal(text[2 * k])]

C2_PhraseLayout ==
  (pair.pc = "called") =>
    LET words  == split(pair.seedA)
        fields == SplitOn(SubSeq(pair.phraseA, 1, Len(pair.phraseA) - 1), SP)
        n      == Len(fields)
    IN  /\ pair.phraseA[Len(pair.phraseA)] = NL
        /\ SubSeq(fields, 1, n - 1) = (IF words = <<>> THEN <<<<>>>> ELSE words)
        /\ IsDecimal(fields[n]) /\ DecimalValue(fields[n]) = pair.index
        /\ pair.skA = Ok(int_from_bytes(sha256_digest(pair.phraseA)))
        /\ pair.skA.val \in 0..(HashModulus - 1)
        /\ (split(pair.seedA) = split(pair.seedB)) =>
             (pair.phraseA = pair.phraseB /\ pair.skA = pair.skB)
        /\ (split(pair.seedA) # split(pair.seedB)) =>
             pair.phraseA # pair.phraseB

\* seed_to_sk was called on two different texts of the same two words.
C2_Witness ==
  /\ pair.pc = "called" /\ pair.seedA # pair.seedB
  /\ split(pair.seedA) = split(pair.seedB) /\ Len(split(pair.seedA)) = 2
  /\ pair.skA.ok /\ pair.skA = pair.skB

====
